---- MODULE Spec2Model ----
(***************************************************************************)
(* Model of src/src/lib.rs: BitSet (a packed bit array stored in a         *)
(* Vec<u8>) and BloomFilter<T, F, H> built on it.                          *)
(*                                                                         *)
(* Two specifications:                                                     *)
(*   Spec        a BloomFilter after new(), driven by insert / contains    *)
(*   BitSetSpec  a BitSet after BitSet::new(len), driven by get / set, as  *)
(*               the unit tests of the crate drive it                      *)
(*                                                                         *)
(* A panic (Vec index out of range, remainder by zero) aborts the          *)
(* operation that raised it and ends the run: `panicked` becomes TRUE and  *)
(* no further operation is taken.                                          *)
(***************************************************************************)
EXTENDS Integers, Sequences, FiniteSets

\* ---------------------------------------------------------------- bounds
\* Largest array capacity F (and BitSet length) explored.
MaxF == 9
\* Largest number of hash functions H explored.
MaxH == 2
\* Width of a hash value in bits (standing for the 64 of u64).
HashBits == 4
\* Largest bit index handed to BitSet::get / BitSet::set in BitSetSpec.
MaxBit == 9

\* The items offered to insert / contains.
Items == {"a", "b"}

\* ------------------------------------------------------ program constants
\* Bits stored per element of Vec<u8>.
BitsPerByte == 8

\* The values hash_one may return: a sample of 0 .. 2^HashBits - 1 that holds
\* values below and above the capacities explored, values in the second byte
\* of the array, and values that collide modulo F.
HashValues == {1, 8, 12}

\* `hash as usize`: the cast keeps the low bits that fit a usize. The model
\* is of a 64-bit target, where usize is as wide as the u64 hash.
UsizeRange == 2 ^ HashBits
AsUsize(hash) == hash % UsizeRange

VARIABLES
    F,          \* const generic F (in BitSetSpec: the len given to BitSet::new)
    H,          \* const generic H
    hashers,    \* BloomFilter.hashers: for each of the H RandomStates, item -> hash
    filter,     \* BloomFilter.filter: the BitSet, [bits |-> sequence of bytes]
    panicked,   \* TRUE once an operation has panicked
    op,         \* the last operation: "new", "insert", "contains", "get", "set"
    arg,        \* its argument: an item (insert, contains) or a bit index (get, set)
    val,        \* the value given to the last set
    ret,        \* the value returned by the last contains / get
    inserted,   \* history: the items whose insert has returned
    written,    \* history: the bit indices whose last completed set wrote true
    streak      \* history: how many inserts of `arg` in a row have just returned (capped at 2)

vars == <<F, H, hashers, filter, panicked, op, arg, val, ret, inserted, written, streak>>

\* ------------------------------------------------------------------ BitSet
Pow2(n) == IF n = 0 THEN 1 ELSE 2 ^ n

\* len.saturating_sub(1)
SaturatingSub1(len) == IF len = 0 THEN 0 ELSE len - 1

\* BitSet::new: vec![0u8; (len.saturating_sub(1) / 8) + 1]
BitSet_new(len) ==
    [bits |-> [i \in 1 .. ((SaturatingSub1(len) \div BitsPerByte) + 1) |-> 0]]

\* (byte >> bit_idx) & 1
ShrAnd1(byte, bit_idx) == (byte \div Pow2(bit_idx)) % 2

\* byte ^ (1 << bit_idx) on a u8
XorBit(byte, bit_idx) ==
    IF ShrAnd1(byte, bit_idx) = 1 THEN byte - Pow2(bit_idx) ELSE byte + Pow2(bit_idx)

\* Vec indexing self.bits[byte_idx] panics when byte_idx >= self.bits.len();
\* sequences are 1-based, so element byte_idx is bits[byte_idx + 1].
InVec(bs, byte_idx) == byte_idx < Len(bs.bits)

\* BitSet::get: [val |-> the bit, panic |-> the index was outside the Vec]
BitSet_get(bs, bit) ==
    LET byte_idx == bit \div BitsPerByte
        bit_idx  == bit % BitsPerByte
    IN  IF ~InVec(bs, byte_idx)
        THEN [val |-> FALSE, panic |-> TRUE]
        ELSE [val |-> ShrAnd1(bs.bits[byte_idx + 1], bit_idx) = 1, panic |-> FALSE]

\* Faulty variant of BitSet::set: the XOR is applied without first comparing
\* the stored bit with val, so the bit is flipped on every call.
BitSet_set_always_xor(bs, bit, v) ==
    LET byte_idx == bit \div BitsPerByte
        bit_idx  == bit % BitsPerByte
    IN  IF ~InVec(bs, byte_idx)
        THEN [bs |-> bs, panic |-> TRUE]
        ELSE [bs |-> [bits |-> [bs.bits EXCEPT ![byte_idx + 1] = XorBit(@, bit_idx)]],
              panic |-> FALSE]

\* Faulty variant of BitSet::set: the byte is assigned the mask (or 0) instead
\* of being XORed with it, which overwrites the other bits of the byte.
BitSet_set_whole_byte(bs, bit, v) ==
    LET byte_idx == bit \div BitsPerByte
        bit_idx  == bit % BitsPerByte
    IN  IF ~InVec(bs, byte_idx)
        THEN [bs |-> bs, panic |-> TRUE]
        ELSE [bs |-> [bits |-> [bs.bits EXCEPT ![byte_idx + 1] =
                                   IF v THEN Pow2(bit_idx) ELSE 0]],
              panic |-> FALSE]

\* BitSet::set: [bs |-> the BitSet afterwards, panic |-> the index was outside the Vec]
BitSet_set(bs, bit, v) ==
    LET byte_idx == bit \div BitsPerByte
        bit_idx  == bit % BitsPerByte
    IN  IF ~InVec(bs, byte_idx)
        THEN [bs |-> bs, panic |-> TRUE]
        ELSE IF ShrAnd1(bs.bits[byte_idx + 1], bit_idx) # (IF v THEN 1 ELSE 0)
             THEN [bs |-> [bits |-> [bs.bits EXCEPT ![byte_idx + 1] = XorBit(@, bit_idx)]],
                   panic |-> FALSE]
             ELSE [bs |-> bs, panic |-> FALSE]

\* ------------------------------------------------------------- BloomFilter
\* rs.hash_one(item) for the k-th RandomState
hash_one(hs, k, item) == hs[k][item]

\* BloomFilter::insert from the k-th hasher on: for_each(|hash| set(hash as usize % F, true)).
\* `% F` panics when F = 0.
RECURSIVE insert_from(_, _, _, _, _)
insert_from(hs, f, bs, item, k) ==
    IF k > Len(hs) THEN [bs |-> bs, panic |-> FALSE]
    ELSE IF f = 0 THEN [bs |-> bs, panic |-> TRUE]
    ELSE LET r == BitSet_set(bs, AsUsize(hash_one(hs, k, item)) % f, TRUE)
         IN  IF r.panic THEN r ELSE insert_from(hs, f, r.bs, item, k + 1)

\* Faulty variant of BloomFilter::insert: the hash is reduced modulo the number
\* of bytes of the array instead of modulo F.
insert_wrong_capacity(hs, f, bs, item) ==
    IF f = 0 THEN insert_from(hs, f, bs, item, 1)
    ELSE insert_from(hs, Len(bs.bits), bs, item, 1)

insert(hs, f, bs, item) == insert_from(hs, f, bs, item, 1)

\* BloomFilter::contains from the k-th hasher on: all(|hash| get(hash as usize % F)),
\* which stops at the first false.
RECURSIVE contains_from(_, _, _, _, _)
contains_from(hs, f, bs, item, k) ==
    IF k > Len(hs) THEN [val |-> TRUE, panic |-> FALSE]
    ELSE IF f = 0 THEN [val |-> FALSE, panic |-> TRUE]
    ELSE LET r == BitSet_get(bs, AsUsize(hash_one(hs, k, item)) % f)
         IN  IF r.panic \/ ~r.val THEN r ELSE contains_from(hs, f, bs, item, k + 1)

\* Faulty variant of BloomFilter::contains: any() in place of all(), true as
\* soon as one of the H bits is set.
RECURSIVE contains_any_from(_, _, _, _, _)
contains_any_from(hs, f, bs, item, k) ==
    IF k > Len(hs) THEN [val |-> FALSE, panic |-> FALSE]
    ELSE IF f = 0 THEN [val |-> FALSE, panic |-> TRUE]
    ELSE LET r == BitSet_get(bs, AsUsize(hash_one(hs, k, item)) % f)
         IN  IF r.panic \/ r.val THEN r ELSE contains_any_from(hs, f, bs, item, k + 1)

contains_any(hs, f, bs, item) == contains_any_from(hs, f, bs, item, 1)

contains(hs, f, bs, item) == contains_from(hs, f, bs, item, 1)

\* The bit indices insert(item) hands to BitSet::set (F > 0).
Indices(hs, f, item) == {AsUsize(hash_one(hs, k, item)) % f : k \in 1 .. Len(hs)}

\* ------------------------------------------------------------------- Spec
\* BloomFilter::new for every F, H and every choice of the H random hashers.
Init ==
    /\ F \in 0 .. MaxF
    /\ H \in 0 .. MaxH
    /\ hashers \in [1 .. H -> [Items -> HashValues]]
    /\ filter = BitSet_new(F)
    /\ panicked = FALSE
    /\ op = "new"
    /\ arg = "none"
    /\ val = FALSE
    /\ ret = FALSE
    /\ inserted = {}
    /\ written = {}
    /\ streak = 0

Insert(item) ==
    /\ ~panicked
    /\ LET r == insert(hashers, F, filter, item)
       IN  /\ filter' = r.bs
           /\ panicked' = r.panic
           /\ inserted' = IF r.panic THEN inserted ELSE inserted \cup {item}
           /\ written' = IF r.panic THEN written
                         ELSE written \cup (IF F = 0 THEN {} ELSE Indices(hashers, F, item))
           /\ streak' = IF r.panic THEN 0
                        ELSE IF op = "insert" /\ arg = item /\ streak >= 1 THEN 2 ELSE 1
    /\ op' = "insert"
    /\ arg' = item
    /\ UNCHANGED <<F, H, hashers, val, ret>>

Contains(item) ==
    /\ ~panicked
    /\ LET r == contains(hashers, F, filter, item)
       IN  /\ ret' = r.val
           /\ panicked' = r.panic
    /\ op' = "contains"
    /\ arg' = item
    /\ streak' = 0
    /\ UNCHANGED <<F, H, hashers, filter, val, inserted, written>>

Next ==
    \/ \E item \in Items : Insert(item)
    \/ \E item \in Items : Contains(item)

Spec == Init /\ [][Next]_vars

\* ------------------------------------------------------------- BitSetSpec
\* BitSet::new(len) for every len; F holds len, there are no hashers.
BitSetInit ==
    /\ F \in 0 .. MaxF
    /\ H = 0
    /\ hashers = << >>
    /\ filter = BitSet_new(F)
    /\ panicked = FALSE
    /\ op = "new"
    /\ arg = 0
    /\ val = FALSE
    /\ ret = FALSE
    /\ inserted = {}
    /\ written = {}
    /\ streak = 0

Get(bit) ==
    /\ ~panicked
    /\ LET r == BitSet_get(filter, bit)
       IN  /\ ret' = r.val
           /\ panicked' = r.panic
    /\ op' = "get"
    /\ arg' = bit
    /\ UNCHANGED <<F, H, hashers, filter, val, inserted, written, streak>>

Set(bit, v) ==
    /\ ~panicked
    /\ LET r == BitSet_set(filter, bit, v)
       IN  /\ filter' = r.bs
           /\ panicked' = r.panic
           /\ written' = IF r.panic THEN written
                         ELSE IF v THEN written \cup {bit} ELSE written \ {bit}
    /\ op' = "set"
    /\ arg' = bit
    /\ val' = v
    /\ UNCHANGED <<F, H, hashers, ret, inserted, streak>>

BitSetNext ==
    \/ \E bit \in 0 .. MaxBit : Get(bit)
    \/ \E bit \in 0 .. MaxBit, v \in BOOLEAN : Set(bit, v)

BitSetSpec == BitSetInit /\ [][BitSetNext]_vars

\* ------------------------------------------------------------- properties
\* The bit at index i of the array, read straight from the bytes: byte i / 8,
\* offset i % 8. FALSE where the array has no such byte.
BitAt(bs, i) ==
    /\ i \div BitsPerByte < Len(bs.bits)
    /\ (bs.bits[(i \div BitsPerByte) + 1] \div Pow2(i % BitsPerByte)) % 2 = 1

\* Every bit index the allocated bytes hold, padding bits included.
AllBits(bs) == 0 .. (BitsPerByte * Len(bs.bits) - 1)

ReturnsTrue(r) == r.val /\ ~r.panic
ReturnsFalse(r) == ~r.val /\ ~r.panic

\* For each of the H hash functions h, the bit at index h(x) mod F is 1.
AllHashBitsSet(x) ==
    \A k \in 1 .. H : F # 0 /\ BitAt(filter, hashers[k][x] % F)

\* C1: no false negatives. Every item whose insert has returned is reported
\* present by contains, in the state right after the insert and in every
\* later state, whatever was inserted since.
C1_NoFalseNegatives ==
    \A x \in inserted : ReturnsTrue(contains(hashers, F, filter, x))

\* Both items were inserted, the one inserted first is still present after
\* the other's insertion, and the two do not share all their bits.
C1_Witness ==
    /\ op = "insert" /\ ~panicked
    /\ inserted = Items
    /\ H >= 1 /\ F >= 2
    /\ \E x \in Items : x # arg /\ Indices(hashers, F, x) # Indices(hashers, F, arg)

\* C2: contains(x) returns true if and only if, for each of the H hash
\* functions, the bit at index h(x) mod F is 1; a single unset bit makes it
\* false. Stated on what contains would return in each reachable state and
\* on what the last contains did return.
C2_ContainsIffAllBits ==
    /\ \A x \in Items :
          ReturnsTrue(contains(hashers, F, filter, x)) <=> AllHashBitsSet(x)
    /\ op = "contains" => ((ret /\ ~panicked) <=> AllHashBitsSet(arg))

\* contains returned false for an item one of whose two bits is set and the
\* other is not.
C2_Witness ==
    /\ op = "contains" /\ ~panicked /\ ~ret
    /\ H = 2 /\ F >= 2
    /\ \E j, k \in 1 .. H :
          /\ BitAt(filter, hashers[j][arg] % F)
          /\ ~BitAt(filter, hashers[k][arg] % F)

\* C3 (as claimed): on a filter on which no insert has been performed,
\* contains returns false for every item, for every F and H.
C3_EmptyRejects ==
    (op = "contains" /\ inserted = {}) => (~panicked /\ ~ret)

\* C4: monotonicity. A bit of the array that is 1 stays 1 across every step;
\* the set of 1-bits after a step is a superset of the set before it.
C4_Monotonic ==
    [][\A i \in AllBits(filter) : BitAt(filter, i) => BitAt(filter', i)]_vars

\* Both items have been inserted, one after the other, and at least three
\* bits of the array are 1.
C4_Witness ==
    /\ op = "insert" /\ ~panicked
    /\ Cardinality(inserted) = 2
    /\ Cardinality({i \in AllBits(filter) : BitAt(filter, i)}) >= 3

\* C5: idempotence. When insert(x) has just returned, a second insert(x)
\* right after it leaves the bit array as it is, so contains gives the same
\* result for every item after one insertion as after two.
C5_Idempotent ==
    [][(op = "insert" /\ ~panicked /\ op' = "insert" /\ arg' = arg)
         => /\ filter' = filter
            /\ ~panicked'
            /\ \A y \in Items : contains(hashers', F', filter', y)
                                  = contains(hashers, F, filter, y)]_vars

\* The same item was inserted twice in a row into a filter that sets bits.
C5_Witness ==
    /\ streak = 2 /\ op = "insert" /\ ~panicked
    /\ H = 2 /\ F >= 2
    /\ Cardinality(Indices(hashers, F, arg)) = 2

\* C6 (as claimed): for every F and H, neither insert nor contains panics.
C6_NeverPanics ==
    op \in {"insert", "contains"} => ~panicked

\* C7 (as claimed): get(index) and set(index, v) with index >= len panic.
C7_BoundsFault ==
    (op \in {"get", "set"} /\ arg >= F) => panicked

\* C8: bit array correctness. Every index below the length reads false
\* right after construction; after set(i, v) with i below the length, get(i)
\* returns v whatever the bit held before; every index below the length
\* reads the value last set to it, so once all are set back to false none
\* reads true.
C8_BitArrayCorrect ==
    /\ op = "new" => \A i \in 0 .. F - 1 : ReturnsFalse(BitSet_get(filter, i))
    /\ (op = "set" /\ arg < F) =>
          /\ ~panicked
          /\ BitSet_get(filter, arg) = [val |-> val, panic |-> FALSE]
    /\ \A i \in 0 .. F - 1 :
          BitSet_get(filter, i) = [val |-> i \in written, panic |-> FALSE]

\* A bit of the second byte that was true has just been set back to false
\* while a bit of the first byte stays true.
C8_Witness ==
    /\ op = "set" /\ ~val /\ ~panicked
    /\ arg >= BitsPerByte /\ arg < F
    /\ \E i \in written : i < BitsPerByte

\* C10: frame of insert. An insert that returns sets the bits at the H
\* indices h(item) mod F and leaves every other bit of the allocated bytes,
\* the number of bytes, the hashers, F and H unchanged; an insert that
\* panics changes no bit.
C10_InsertFrame ==
    [][op' = "insert" =>
         /\ Len(filter'.bits) = Len(filter.bits)
         /\ <<F', H', hashers'>> = <<F, H, hashers>>
         /\ panicked' => filter' = filter
         /\ ~panicked' =>
              \A i \in AllBits(filter) :
                 BitAt(filter', i) <=>
                    (BitAt(filter, i) \/ \E k \in 1 .. H : i = hashers[k][arg'] % F)]_vars

\* An insert has set bits in both bytes of a two-byte array that already held
\* bits of another item, and left bits of both bytes 0.
C10_Witness ==
    /\ op = "insert" /\ ~panicked
    /\ inserted = Items
    /\ Len(filter.bits) = 2
    /\ \E i, j \in Indices(hashers, F, arg) : i < BitsPerByte /\ j >= BitsPerByte
    /\ \E x \in Items : ~(Indices(hashers, F, x) \subseteq Indices(hashers, F, arg))

====
